---- MODULE Spec2Model ----
(***************************************************************************)
(* Model of the layout/style navigation of Configs/.local/lib/hyde/        *)
(* waybar.py: the layout catalog, the style resolver, the state file       *)
(* (staterc) bootstrap and rewrite, and the --next / --prev / --set        *)
(* invocations of main().                                                  *)
(*                                                                         *)
(* Strings are sequences of tokens.  A token is one character, except the  *)
(* file extensions ".jsonc" and ".css" and the two managed key names,      *)
(* which are kept whole; every string operation of the source that the     *)
(* model needs (startswith, endswith, split, strip, replace, basename,     *)
(* comparison) is computed on the tokens.                                  *)
(***************************************************************************)
EXTENDS Integers, Sequences, FiniteSets, TLC

VARIABLES
    layoutDirs,   \* LAYOUT_DIRS, as the environment made it
    files,        \* the files under the layout directories: path -> content
    styles,       \* the files of the style directories, in directory order
    stateFile,    \* staterc: [exists, data], data the file's tokens
    configFile,   \* ~/.config/waybar/config.jsonc: [exists, data]
    styleFile,    \* ~/.config/waybar/style.css: [exists, import]
    pc,           \* where each invocation of main() stands
    loc,          \* the locals of each invocation
    runs,         \* invocations each process may still start
    last,         \* the invocation that finished last (<<>> before the first)
    chain         \* the layout paths a run of successful --next has recorded

vars == <<layoutDirs, files, styles, stateFile, configFile, styleFile,
          pc, loc, runs, last, chain>>

\* ------------------------------------------------------------------ bounds

\* Invocations of main() in one behaviour of Spec.
MaxRuns == 2

\* ----------------------------------------------------------------- strings

NL == "\n"
\* a line end as another system's editor leaves it: "\r\n", one token
CRLF == "\r\n"
LineEnds == {NL, CRLF}
KeyLayout == <<"WAYBAR_LAYOUT_PATH", "=">>
KeyStyle == <<"WAYBAR_STYLE_PATH", "=">>
ExtLayout == <<".jsonc">>
ExtStyle == <<".css">>
Whitespace == {NL, CRLF, " "}

\* Python's None and the empty string: both are falsy where the source tests them.
None == <<>>

\* The code point order of the tokens (a token's first character; the two
\* extensions differ in their second).
Rank(t) ==
    CASE t = NL -> 100
      [] t = CRLF -> 130
      [] t = " " -> 320
      [] t = "#" -> 350
      [] t = ".css" -> 460
      [] t = ".jsonc" -> 461
      [] t = "/" -> 470
      [] t = "=" -> 610
      [] t = "OTHER_KEY" -> 790
      [] t = "WAYBAR_LAYOUT_PATH" -> 870
      [] t = "WAYBAR_STYLE_PATH" -> 871
      [] t = "a" -> 970
      [] t = "b" -> 980
      [] t = "c" -> 990
      [] t = "d" -> 1000
      [] t = "defaults" -> 1001
      [] t = "n" -> 1100
      [] t = "s" -> 1150
      [] t = "t" -> 1160
      [] t = "u" -> 1170
      [] t = "v" -> 1180
      [] t = "x" -> 1200

\* str.__lt__
RECURSIVE LexLess(_, _)
LexLess(s, t) ==
    IF s = <<>> THEN t # <<>>
    ELSE IF t = <<>> THEN FALSE
    ELSE IF Head(s) # Head(t) THEN Rank(Head(s)) < Rank(Head(t))
    ELSE LexLess(Tail(s), Tail(t))

\* str.startswith, str.endswith
StartsWith(s, pre) == Len(pre) <= Len(s) /\ SubSeq(s, 1, Len(pre)) = pre
EndsWith(s, suf) ==
    Len(suf) <= Len(s) /\ SubSeq(s, Len(s) - Len(suf) + 1, Len(s)) = suf

\* str.replace(tok, "") for a one-token tok
RemoveAll(s, tok) == SelectSeq(s, LAMBDA x : x # tok)

\* s.split(sep)[0]
RECURSIVE FirstField(_, _)
FirstField(s, sep) ==
    IF s = <<>> \/ Head(s) = sep THEN <<>>
    ELSE <<Head(s)>> \o FirstField(Tail(s), sep)

\* s.split(sep)[1], for an s that holds sep
RECURSIVE AfterFirst(_, _)
AfterFirst(s, sep) ==
    IF s = <<>> THEN <<>>
    ELSE IF Head(s) = sep THEN Tail(s)
    ELSE AfterFirst(Tail(s), sep)

SecondField(s, sep) == FirstField(AfterFirst(s, sep), sep)

\* str.strip()
RECURSIVE LStrip(_)
LStrip(s) == IF s # <<>> /\ Head(s) \in Whitespace THEN LStrip(Tail(s)) ELSE s

RECURSIVE RStrip(_)
RStrip(s) ==
    IF s # <<>> /\ s[Len(s)] \in Whitespace THEN RStrip(SubSeq(s, 1, Len(s) - 1))
    ELSE s

Strip(s) == RStrip(LStrip(s))

\* os.path.basename
RECURSIVE Basename(_)
Basename(p) ==
    IF \E i \in 1..Len(p) : p[i] = "/" THEN Basename(AfterFirst(p, "/")) ELSE p

\* os.path.dirname
Dirname(p) == SubSeq(p, 1, Len(p) - Len(Basename(p)) - 1)

\* os.path.join(dir, name)
Join(dir, name) == dir \o <<"/">> \o name

\* The tokens of data before its first line end.
RECURSIVE UpToLineEnd(_)
UpToLineEnd(data) ==
    IF data = <<>> \/ Head(data) \in LineEnds THEN <<>>
    ELSE <<Head(data)>> \o UpToLineEnd(Tail(data))

\* file.readlines() of a file opened in text mode (newline=None): the lines of
\* the file, each with its line end if it has one, and every line end read as
\* "\n" (universal newlines).
RECURSIVE ReadLines(_)
ReadLines(data) ==
    IF data = <<>> THEN <<>>
    ELSE LET first == UpToLineEnd(data)
             n == Len(first)
         IN  IF n = Len(data) THEN <<data>>
             ELSE <<first \o <<NL>>>> \o ReadLines(SubSeq(data, n + 2, Len(data)))

\* The lines of a file as its bytes have them, line ends untranslated.
RECURSIVE RawLines(_)
RawLines(data) ==
    IF data = <<>> THEN <<>>
    ELSE LET n == Len(UpToLineEnd(data))
         IN  IF n = Len(data) THEN <<data>>
             ELSE <<SubSeq(data, 1, n + 1)>> \o RawLines(SubSeq(data, n + 2, Len(data)))

\* "".join(lines)
RECURSIVE Concat(_)
Concat(lines) == IF lines = <<>> THEN <<>> ELSE Head(lines) \o Concat(Tail(lines))

RECURSIVE SetToSeq(_)
SetToSeq(S) ==
    IF S = {} THEN <<>>
    ELSE LET x == CHOOSE y \in S : TRUE IN <<x>> \o SetToSeq(S \ {x})

Range(s) == {s[i] : i \in 1..Len(s)}

\* -------------------------------------------------------------- constants

\* STYLE_DIRS: $XDG_CONFIG_HOME/waybar/styles, $XDG_DATA_HOME/waybar/styles
STYLE_DIRS == << <<"/", "s">>, <<"/", "u">> >>

\* ------------------------------------------------------------ LayoutCatalog

\* get_file_hash: SHA-256 of the content; contents are numbered, and two files
\* have one digest exactly when they have one content.
get_file_hash(data) == data

\* os.walk(layout_dir) with the .jsonc filter: the layout files under one search
\* directory, at any depth (nothing for a directory that does not exist).
WalkLayouts(layout_dir) ==
    {p \in DOMAIN files :
        StartsWith(p, layout_dir \o <<"/">>) /\ EndsWith(Basename(p), ExtLayout)}

RECURSIVE WalkAll(_)
WalkAll(dirs) ==
    IF dirs = <<>> THEN <<>>
    ELSE SetToSeq(WalkLayouts(Head(dirs))) \o WalkAll(Tail(dirs))

\* find_layout_files: one entry per search directory a file is under, sorted.
find_layout_files == SortSeq(WalkAll(layoutDirs), LexLess)

\* A reconciliation that guesses: the first layout when no digest is equal.
FirstWithHashOrFirst(layouts, config_hash) ==
    LET same == {i \in 1..Len(layouts) :
                    get_file_hash(files[layouts[i]]) = config_hash}
    IN  IF layouts = <<>> THEN None
        ELSE IF same = {} THEN layouts[1]
        ELSE layouts[CHOOSE i \in same : \A j \in same : i <= j]

RECURSIVE FirstWithHash(_, _)
FirstWithHash(layouts, config_hash) ==
    IF layouts = <<>> THEN None
    ELSE IF get_file_hash(files[Head(layouts)]) = config_hash THEN Head(layouts)
    ELSE FirstWithHash(Tail(layouts), config_hash)

\* get_current_layout_from_config, for a config.jsonc that exists (the source
\* raises FileNotFoundError when it does not: see the actions).
get_current_layout_from_config ==
    FirstWithHash(find_layout_files, get_file_hash(configFile.data))

\* ------------------------------------------------------------ StyleResolver

\* glob.glob(os.path.join(style_dir, f"{name}*.css")): the matches in the
\* directory's own order.
Glob(style_dir, name) ==
    SelectSeq(styles, LAMBDA f :
        /\ Dirname(f) = style_dir
        /\ StartsWith(Basename(f), name)
        /\ EndsWith(Basename(f), ExtStyle)
        /\ Len(Basename(f)) >= Len(name) + Len(ExtStyle))

\* A first loop that never strips the #tag: only the full name is searched.
RECURSIVE ResolveNamedNoStrip(_, _)
ResolveNamedNoStrip(dirs, name) ==
    IF dirs = <<>> THEN None
    ELSE IF Glob(Head(dirs), name) # <<>> THEN Glob(Head(dirs), name)[1]
    ELSE ResolveNamedNoStrip(Tail(dirs), name)

\* The first loop of resolve_style_path; name is reassigned inside the loop, so
\* every directory after the first is searched with the stripped name only.
RECURSIVE ResolveNamed(_, _)
ResolveNamed(dirs, name) ==
    IF dirs = <<>> THEN None
    ELSE LET full == Glob(Head(dirs), name)
             stripped == FirstField(name, "#")
             base == Glob(Head(dirs), stripped)
         IN  IF full # <<>> THEN full[1]
             ELSE IF base # <<>> THEN base[1]
             ELSE ResolveNamed(Tail(dirs), stripped)

DefaultsPath(style_dir) == Join(style_dir, <<"defaults", ".css">>)

\* The second loop, and the last-resort path under STYLE_DIRS[0].
RECURSIVE ResolveDefault(_)
ResolveDefault(dirs) ==
    IF dirs = <<>> THEN DefaultsPath(STYLE_DIRS[1])
    ELSE IF DefaultsPath(Head(dirs)) \in Range(styles) THEN DefaultsPath(Head(dirs))
    ELSE ResolveDefault(Tail(dirs))

resolve_style_path(layout_path) ==
    LET name == RemoveAll(Basename(layout_path), ".jsonc")
        named == ResolveNamed(STYLE_DIRS, name)
    IN  IF named # None THEN named ELSE ResolveDefault(STYLE_DIRS)

\* ------------------------------------------------------------- list_layouts

RECURSIVE FirstPrefixDir(_, _)
FirstPrefixDir(layout, dirs) ==
    IF dirs = <<>> THEN None
    ELSE IF StartsWith(layout, Head(dirs)) THEN Head(dirs)
    ELSE FirstPrefixDir(layout, Tail(dirs))

\* os.path.relpath(layout, start=layout_dir), layout_dir an ancestor of layout
RelPath(layout, layout_dir) == SubSeq(layout, Len(layout_dir) + 2, Len(layout))

LayoutName(layout) ==
    RemoveAll(RelPath(layout, FirstPrefixDir(layout, layoutDirs)), ".jsonc")

RECURSIVE PairsOf(_)
PairsOf(layouts) ==
    IF layouts = <<>> THEN <<>>
    ELSE <<[layout |-> Head(layouts),
            name |-> LayoutName(Head(layouts)),
            style |-> resolve_style_path(Head(layouts))]>> \o PairsOf(Tail(layouts))

list_layouts == PairsOf(find_layout_files)

\* --------------------------------------------------------------- StateStore

HasKey(lines, key) == \E i \in 1..Len(lines) : StartsWith(lines[i], key)

\* Whether ensure_state_file calls get_current_layout_from_config.
BootstrapNeeded ==
    IF ~stateFile.exists \/ stateFile.data = <<>> THEN TRUE
    ELSE LET lines == ReadLines(stateFile.data)
         IN  ~HasKey(lines, KeyLayout) \/ ~HasKey(lines, KeyStyle)

\* ensure_state_file: the state file it leaves, for a config.jsonc that exists.
\* Mode "w" writes both keys to a fresh file; mode "a" appends the missing keys
\* after the last byte of the file, whether or not that byte ends a line.
ensure_state_file ==
    LET current_layout == get_current_layout_from_config
        layout_line == KeyLayout \o current_layout \o <<NL>>
        style_line == KeyStyle \o resolve_style_path(current_layout) \o <<NL>>
    IN  IF ~stateFile.exists \/ stateFile.data = <<>>
        THEN IF current_layout # None
             THEN [exists |-> TRUE, data |-> layout_line \o style_line]
             ELSE stateFile
        ELSE LET lines == ReadLines(stateFile.data)
                 layout_path_exists == HasKey(lines, KeyLayout)
                 style_path_exists == HasKey(lines, KeyStyle)
             IN  IF (~layout_path_exists \/ ~style_path_exists) /\ current_layout # None
                 THEN [exists |-> TRUE,
                       data |-> stateFile.data
                                \o (IF layout_path_exists THEN <<>> ELSE layout_line)
                                \o (IF style_path_exists THEN <<>> ELSE style_line)]
                 ELSE stateFile

\* handle_layout_navigation, lines 214-219: the value of the first line that
\* starts with the layout key, None when no line does.
RECURSIVE ReadCurrentLayout(_)
ReadCurrentLayout(lines) ==
    IF lines = <<>> THEN None
    ELSE IF StartsWith(Head(lines), KeyLayout)
         THEN Strip(SecondField(Head(lines), "="))
         ELSE ReadCurrentLayout(Tail(lines))

\* set_layout, lines 189-195: one line of the rewritten state file.
RewriteLine(line, layout_path, style_path) ==
    IF StartsWith(line, KeyLayout) THEN KeyLayout \o layout_path \o <<NL>>
    ELSE IF StartsWith(line, KeyStyle) THEN KeyStyle \o style_path \o <<NL>>
    ELSE line

RewriteLines(lines, layout_path, style_path) ==
    [i \in 1..Len(lines) |-> RewriteLine(lines[i], layout_path, style_path)]

\* A buffered write of data from offset 0 into a file that holds old: what lies
\* past the written length stays (it is empty after the truncation of open "w",
\* unless another process wrote in between).
WriteAt0(old, data) == data \o SubSeq(old, Len(data) + 1, Len(old))

\* ------------------------------------------------------ NavigationController

\* list.index
RECURSIVE IndexOf(_, _)
IndexOf(seq, x) == IF Head(seq) = x THEN 0 ELSE 1 + IndexOf(Tail(seq), x)

\* handle_layout_navigation, lines 232-244: what is passed to set_layout.
NavTarget(option, layouts, current_layout, arg) ==
    LET current_index == IndexOf(layouts, current_layout)
    IN  IF option = "--next"
        THEN layouts[((current_index + 1) % Len(layouts)) + 1]
        ELSE IF option = "--prev"
        THEN layouts[((current_index - 1 + Len(layouts)) % Len(layouts)) + 1]
        ELSE arg

\* set_layout, lines 169-175: the path of the first pair whose path or name is
\* the argument, None when there is none.
RECURSIVE MatchLayout(_, _)
MatchLayout(pairs, layout) ==
    IF pairs = <<>> THEN None
    ELSE IF layout = Head(pairs).layout \/ layout = Head(pairs).name
         THEN Head(pairs).layout
         ELSE MatchLayout(Tail(pairs), layout)

\* ------------------------------------------------------------- environment

Procs == {1, 2}

DirC == <<"/", "c">>
DirD == <<"/", "d">>
DirCN == <<"/", "c", "/", "n">>

\* LAYOUT_DIRS as the environment can make it: distinct directories, one
\* directory twice (XDG_DATA_HOME = XDG_CONFIG_HOME), one nested in the other.
LayoutDirConfigs == { <<DirC, DirD>>, <<DirC, DirC>>, <<DirC, DirCN>> }

Pca == <<"/", "c", "/", "a", ".jsonc">>
Pcat == <<"/", "c", "/", "a", "#", "t", ".jsonc">>
Pcnb == <<"/", "c", "/", "n", "/", "b", ".jsonc">>
Pda == <<"/", "d", "/", "a", ".jsonc">>
\* a layout whose file name holds the separator of the state file
Peq == <<"/", "c", "/", "a", "=", "b", ".jsonc">>
\* a layout that was deleted after the state file named it
Pstale == <<"/", "c", "/", "x", ".jsonc">>
\* a file under a layout directory that is no layout
Pnote == <<"/", "c", "/", "a", ".css">>

Contents == {1, 2}
\* a config.jsonc edited by hand: the content of no layout
Edited == [exists |-> TRUE, data |-> 3]
NoConfig == [exists |-> FALSE, data |-> 0]
NoState == [exists |-> FALSE, data |-> <<>>]

LayoutFileSets ==
    { {}, {Pca}, {Pca, Pcat}, {Pca, Pcnb}, {Pca, Pda}, {Pca, Peq}, {Pca, Pcnb, Pda} }

\* The layouts of one of the sets, each with a content (the first layout's is
\* content 1: which content is which does not matter), beside the file Pnote.
FileWorlds ==
    { [p \in DOMAIN f \cup {Pnote} |-> IF p = Pnote THEN 1 ELSE f[p]] :
        f \in { g \in UNION { [S -> Contents] : S \in LayoutFileSets } :
                  Pca \in DOMAIN g => g[Pca] = 1 } }

Sa == <<"/", "s", "/", "a", ".css">>
Sat == <<"/", "s", "/", "a", "#", "t", ".css">>
Sb == <<"/", "s", "/", "b", ".css">>
Sdef == <<"/", "s", "/", "defaults", ".css">>

StyleListings == { <<>>, <<Sdef>>, <<Sat, Sa, Sb>> }

LineL(p) == KeyLayout \o p \o <<NL>>
LineS(q) == KeyStyle \o q \o <<NL>>
Foreign == <<"OTHER_KEY", "=", "v", NL>>

StateDatas ==
    { <<>>,
      Foreign,
      <<"OTHER_KEY", "=", "v">>,
      LineL(Pca),
      LineS(Sa),
      LineL(Pca) \o LineS(Sa),
      LineL(Pstale) \o LineS(Sa),
      Foreign \o LineL(Pca) \o Foreign \o LineS(Sa),
      LineL(Pcnb) \o LineS(Sb) \o <<"OTHER_KEY", "=", "v", CRLF>>,
      LineL(None) \o LineS(Sa) }

StateFiles == {NoState} \cup {[exists |-> TRUE, data |-> d] : d \in StateDatas}

ConfigFiles == {NoConfig, Edited} \cup {[exists |-> TRUE, data |-> c] : c \in Contents}

\* what each invocation may be asked: --next, --prev, --set <argv[2]>
SetArgs == { <<"a">>, Pda, <<"x">> }
Options == {"--next", "--prev", "--set"}

NoStyle == [exists |-> FALSE, import |-> None]
NoSnapshot == [state |-> NoState, config |-> NoConfig, style |-> NoStyle]

InitLoc ==
    [option |-> "none", arg |-> None, target |-> None,
     layout_path |-> None, style_path |-> None, lines |-> <<>>,
     nav |-> "none", exit |-> -1, err |-> "none",
     signals |-> 0, restarts |-> 0,
     entry |-> NoSnapshot, navigated |-> FALSE, navEntry |-> NoSnapshot]

Snapshot == [state |-> stateFile, config |-> configFile, style |-> styleFile]

Init ==
    /\ layoutDirs \in LayoutDirConfigs
    /\ files \in FileWorlds
    /\ styles \in StyleListings
    /\ stateFile \in StateFiles
    /\ configFile \in ConfigFiles
    /\ styleFile = NoStyle
    /\ pc = [p \in Procs |-> "idle"]
    /\ loc = [p \in Procs |-> InitLoc]
    /\ runs = [p \in Procs |-> IF p = 1 THEN MaxRuns ELSE 0]
    /\ last = <<>>
    /\ chain = <<>>

\* ---------------------------------------------------------------- observers

\* The state record as the state file holds it: the value of the first line of
\* a managed key, all of it after the key's "=" up to the line end; None when
\* the file has no such line.
RECURSIVE RecordValue(_, _)
RecordValue(lines, key) ==
    IF lines = <<>> THEN None
    ELSE IF StartsWith(Head(lines), key)
         THEN SelectSeq(SubSeq(Head(lines), Len(key) + 1, Len(Head(lines))),
                        LAMBDA t : t \notin LineEnds)
         ELSE RecordValue(Tail(lines), key)

RecordLayout(file) == RecordValue(RawLines(file.data), KeyLayout)
RecordStyle(file) == RecordValue(RawLines(file.data), KeyStyle)

\* ------------------------------------------------------------------ actions

fsVars == <<layoutDirs, files, styles>>

Goto(p, label) == pc' = [pc EXCEPT ![p] = label]

\* An uncaught exception or sys.exit(code): the invocation ends there.
Terminate(p, code, err, nav) ==
    /\ loc' = [loc EXCEPT ![p].exit = code, ![p].err = err, ![p].nav = nav]
    /\ Goto(p, "done")

\* main() is started with one of --next, --prev, --set <arg>.
Start(p, option, arg) ==
    /\ pc[p] = "idle"
    /\ runs[p] > 0
    /\ runs' = [runs EXCEPT ![p] = @ - 1]
    /\ loc' = [loc EXCEPT ![p] =
                  [InitLoc EXCEPT !.option = option, !.arg = arg, !.entry = Snapshot]]
    /\ Goto(p, "ensure")
    /\ UNCHANGED <<fsVars, stateFile, configFile, styleFile, last, chain>>

\* main(), line 426: ensure_state_file().  get_file_hash raises
\* FileNotFoundError for a config.jsonc that does not exist.
Ensure(p) ==
    /\ pc[p] = "ensure"
    /\ IF BootstrapNeeded /\ ~configFile.exists
       THEN /\ Terminate(p, 1, "FileNotFoundError", loc[p].nav)
            /\ UNCHANGED stateFile
       ELSE /\ stateFile' = ensure_state_file
            /\ Goto(p, "navigate")
            /\ UNCHANGED loc
    /\ UNCHANGED <<fsVars, configFile, styleFile, runs, last, chain>>

\* handle_layout_navigation up to its call of set_layout (lines 210-244).
Navigate(p) ==
    /\ pc[p] = "navigate"
    /\ LET layouts == find_layout_files
           current_layout == ReadCurrentLayout(ReadLines(stateFile.data))
           here == [loc[p] EXCEPT !.navigated = TRUE, !.navEntry = Snapshot]
           proceed(cur) ==
               /\ loc' = [loc EXCEPT ![p] =
                             [here EXCEPT !.target =
                                 NavTarget(loc[p].option, layouts, cur, loc[p].arg)]]
               /\ Goto(p, "set")
           giveup(why) ==
               /\ loc' = [loc EXCEPT ![p] = [here EXCEPT !.nav = why]]
               /\ Goto(p, "post")
           raise ==
               /\ loc' = [loc EXCEPT ![p] =
                             [here EXCEPT !.exit = 1, !.err = "FileNotFoundError",
                                          !.nav = "raised"]]
               /\ Goto(p, "done")
       IN  IF ~stateFile.exists
           THEN raise
           ELSE IF current_layout = None
           THEN giveup("no_current")
           ELSE IF current_layout \notin Range(layouts)
           THEN IF ~configFile.exists
                THEN raise
                ELSE IF get_current_layout_from_config = None
                THEN giveup("recache_failed")
                ELSE proceed(get_current_layout_from_config)
           ELSE proceed(current_layout)
    /\ UNCHANGED <<fsVars, stateFile, configFile, styleFile, runs, last, chain>>

\* set_layout, lines 169-181.
SetResolve(p) ==
    /\ pc[p] = "set"
    /\ LET layout_path == MatchLayout(list_layouts, loc[p].target)
       IN  IF layout_path = None
           THEN Terminate(p, 1, "SystemExit", "not_found")
           ELSE /\ loc' = [loc EXCEPT ![p].layout_path = layout_path,
                                      ![p].style_path = resolve_style_path(layout_path)]
                /\ Goto(p, "set_read")
    /\ UNCHANGED <<fsVars, stateFile, configFile, styleFile, runs, last, chain>>

\* set_layout, lines 186-187.
SetRead(p) ==
    /\ pc[p] = "set_read"
    /\ IF ~stateFile.exists
       THEN Terminate(p, 1, "FileNotFoundError", "raised")
       ELSE /\ loc' = [loc EXCEPT ![p].lines = ReadLines(stateFile.data)]
            /\ Goto(p, "set_open")
    /\ UNCHANGED <<fsVars, stateFile, configFile, styleFile, runs, last, chain>>

\* set_layout, line 188: open(state_file, "w") truncates the file.
SetOpen(p) ==
    /\ pc[p] = "set_open"
    /\ stateFile' = [exists |-> TRUE, data |-> <<>>]
    /\ Goto(p, "set_write")
    /\ UNCHANGED <<fsVars, configFile, styleFile, loc, runs, last, chain>>

\* set_layout, lines 189-195: the buffered lines reach the file when it is closed.
SetWrite(p) ==
    /\ pc[p] = "set_write"
    /\ stateFile' =
           [exists |-> TRUE,
            data |-> WriteAt0(stateFile.data,
                              Concat(RewriteLines(loc[p].lines, loc[p].layout_path,
                                                  loc[p].style_path)))]
    /\ Goto(p, "set_copy")
    /\ UNCHANGED <<fsVars, configFile, styleFile, loc, runs, last, chain>>

\* set_layout, line 203: shutil.copyfile(layout_path, config_filepath).
SetCopy(p) ==
    /\ pc[p] = "set_copy"
    /\ configFile' = [exists |-> TRUE, data |-> files[loc[p].layout_path]]
    /\ Goto(p, "set_style")
    /\ UNCHANGED <<fsVars, stateFile, styleFile, loc, runs, last, chain>>

\* write_style_file: the wrapper that imports the source style.
write_style_file(source_filepath) == [exists |-> TRUE, import |-> source_filepath]

\* set_layout, line 204.
SetStyle(p) ==
    /\ pc[p] = "set_style"
    /\ styleFile' = write_style_file(loc[p].style_path)
    /\ Goto(p, "set_signal")
    /\ UNCHANGED <<fsVars, stateFile, configFile, loc, runs, last, chain>>

\* set_layout, line 205: pkill -SIGUSR2 waybar; set_layout and
\* handle_layout_navigation return.
SetSignal(p) ==
    /\ pc[p] = "set_signal"
    /\ loc' = [loc EXCEPT ![p].signals = @ + 1, ![p].nav = "ok"]
    /\ Goto(p, "post")
    /\ UNCHANGED <<fsVars, stateFile, configFile, styleFile, runs, last, chain>>

\* main(), lines 467-471, reached whenever handle_layout_navigation returns:
\* update_style(None).  (update_icon_size, update_border_radius and
\* generate_includes, which run first, touch none of the modelled files.)
UpdateStyle(p) ==
    /\ pc[p] = "post"
    /\ IF ~configFile.exists
       THEN Terminate(p, 1, "FileNotFoundError", loc[p].nav) /\ UNCHANGED styleFile
       ELSE LET current_layout == get_current_layout_from_config
            IN  IF current_layout = None
                THEN \* resolve_style_path(None): os.path.basename(None)
                     Terminate(p, 1, "TypeError", loc[p].nav) /\ UNCHANGED styleFile
                ELSE IF resolve_style_path(current_layout) \notin Range(styles)
                THEN Terminate(p, 1, "SystemExit", loc[p].nav) /\ UNCHANGED styleFile
                ELSE /\ styleFile' = write_style_file(resolve_style_path(current_layout))
                     /\ Goto(p, "restart")
                     /\ UNCHANGED loc
    /\ UNCHANGED <<fsVars, stateFile, configFile, runs, last, chain>>

\* main(), lines 472-473: killall waybar; waybar & disown, then sys.exit(0).
Restart(p) ==
    /\ pc[p] = "restart"
    /\ loc' = [loc EXCEPT ![p].restarts = @ + 1, ![p].exit = 0]
    /\ Goto(p, "done")
    /\ UNCHANGED <<fsVars, stateFile, configFile, styleFile, runs, last, chain>>

\* The process has ended; what it did is kept.
Finish(p) ==
    /\ pc[p] = "done"
    /\ last' = <<[proc |-> p, inv |-> loc[p], after |-> Snapshot]>>
    /\ chain' = IF loc[p].option = "--next" /\ loc[p].nav = "ok"
                THEN (IF chain = <<>>
                      THEN <<RecordLayout(loc[p].navEntry.state)>>
                      ELSE chain) \o <<RecordLayout(stateFile)>>
                ELSE <<>>
    /\ loc' = [loc EXCEPT ![p] = InitLoc]
    /\ Goto(p, "idle")
    /\ UNCHANGED <<fsVars, stateFile, configFile, styleFile, runs>>

Next ==
    \E p \in Procs :
        \/ \E option \in Options :
             \E arg \in (IF option = "--set" THEN SetArgs ELSE {None}) :
               Start(p, option, arg)
        \/ Ensure(p)
        \/ Navigate(p)
        \/ SetResolve(p)
        \/ SetRead(p)
        \/ SetOpen(p)
        \/ SetWrite(p)
        \/ SetCopy(p)
        \/ SetStyle(p)
        \/ SetSignal(p)
        \/ UpdateStyle(p)
        \/ Restart(p)
        \/ Finish(p)

Spec == Init /\ [][Next]_vars

\* ------------------------------------------------------ the resolver alone

Uat == <<"/", "u", "/", "a", "#", "t", ".css">>
Ua == <<"/", "u", "/", "a", ".css">>
Udef == <<"/", "u", "/", "defaults", ".css">>

\* The style files the two style directories may hold.
StyleUniverse == {Sat, Sa, Sb, Sdef, Uat, Ua, Udef}

Reverse(s) == [i \in 1..Len(s) |-> s[Len(s) + 1 - i]]

\* What the style directories hold, in the order glob lists it: the order of
\* a directory is the file system's, here the sorted one or its reverse.
ResolveListings ==
    UNION { {SortSeq(SetToSeq(S), LexLess), Reverse(SortSeq(SetToSeq(S), LexLess))} :
              S \in SUBSET StyleUniverse }

\* The layouts resolve_style_path is called with: a, a#t, n/b.
ResolveLayouts == {Pca, Pcat, Pcnb}

InitResolve ==
    /\ layoutDirs = <<DirC, DirD>>
    /\ files = [p \in ResolveLayouts \cup {Pnote} |-> 1]
    /\ styles \in ResolveListings
    /\ stateFile = NoState
    /\ configFile = NoConfig
    /\ styleFile = NoStyle
    /\ pc = [p \in Procs |-> "idle"]
    /\ loc = [p \in Procs |-> InitLoc]
    /\ runs = [p \in Procs |-> IF p = 1 THEN MaxRuns ELSE 0]
    /\ last = <<>>
    /\ chain = <<>>

\* One call of resolve_style_path(layout_path); the call before it is kept.
ResolveCall(p, layout_path) ==
    /\ pc[p] = "idle"
    /\ runs[p] > 0
    /\ runs' = [runs EXCEPT ![p] = @ - 1]
    /\ last' = IF loc[p].layout_path = None THEN <<>>
               ELSE <<[proc |-> p, inv |-> loc[p], after |-> Snapshot]>>
    /\ loc' = [loc EXCEPT ![p].layout_path = layout_path,
                          ![p].style_path = resolve_style_path(layout_path)]
    /\ UNCHANGED <<fsVars, stateFile, configFile, styleFile, pc, chain>>

NextResolve == \E p \in Procs : \E layout_path \in ResolveLayouts : ResolveCall(p, layout_path)

SpecResolve == InitResolve /\ [][NextResolve]_vars

\* ------------------------------------------------------ two invocations

\* Invocations of main() each of the two processes starts in SpecRace.
RaceRuns == 1

\* The record, the installed configuration and the installed style a completed
\* navigation to /c/a.jsonc has left; two layouts of different content.
InitRace ==
    /\ layoutDirs = <<DirC, DirD>>
    /\ files = (Pca :> 1) @@ (Pcnb :> 2) @@ (Pnote :> 1)
    /\ styles = <<Sat, Sa, Sb>>
    /\ stateFile \in { [exists |-> TRUE,
                        data |-> LineL(Pca) \o LineS(resolve_style_path(Pca))],
                       [exists |-> TRUE,
                        data |-> Foreign \o LineL(Pca) \o LineS(resolve_style_path(Pca))] }
    /\ configFile = [exists |-> TRUE, data |-> 1]
    /\ styleFile = write_style_file(resolve_style_path(Pca))
    /\ pc = [p \in Procs |-> "idle"]
    /\ loc = [p \in Procs |-> InitLoc]
    /\ runs = [p \in Procs |-> RaceRuns]
    /\ last = <<>>
    /\ chain = <<>>

\* Both processes run main(); their steps interleave freely, no lock is taken.
SpecRace == InitRace /\ [][Next]_vars

\* --------------------------------------------------------------- properties

\* The catalog as handle_layout_navigation lists it (the files do not change).
Catalog == find_layout_files

IsForeign(line) == ~StartsWith(line, KeyLayout) /\ ~StartsWith(line, KeyStyle)

Matches(pair, target) == target = pair.layout \/ target = pair.name

\* The invocation of p has ended and its navigation was entered.
Navigated(p) == pc[p] = "done" /\ loc[p].navigated

\* C1: when the state record names the path of catalog entry i (the first entry
\* of that path), --next selects entry (i+1) mod N and --prev entry (i-1) mod N
\* of the listed catalog.
C1_NextPrevSelectNeighbour ==
    \A p \in Procs :
        (Navigated(p) /\ loc[p].option \in {"--next", "--prev"}) =>
            LET N == Len(Catalog)
                start == RecordLayout(loc[p].navEntry.state)
                step == IF loc[p].option = "--next" THEN 1 ELSE N - 1
            IN  \A i \in 1..N :
                    (Catalog[i] = start /\ \A j \in 1..(i - 1) : Catalog[j] # start) =>
                        /\ loc[p].nav = "ok"
                        /\ loc[p].layout_path = Catalog[((i - 1 + step) % N) + 1]

\* C2: --next then --prev (or --prev then --next) from a catalog entry, both
\* completed, leaves the state record's layoutPath at the starting entry when
\* N >= 2; for N = 1 each of them alone does.
C2_RoundTrip ==
    \A p \in Procs :
        (pc[p] = "done" /\ loc[p].nav = "ok") =>
            LET N == Len(Catalog)
                here == RecordLayout(loc[p].navEntry.state)
            IN  /\ ( /\ N >= 2
                     /\ last # <<>>
                     /\ last[1].inv.nav = "ok"
                     /\ <<last[1].inv.option, loc[p].option>>
                            \in { <<"--next", "--prev">>, <<"--prev", "--next">> }
                     /\ RecordLayout(last[1].inv.navEntry.state) \in Range(Catalog) )
                   => RecordLayout(stateFile) = RecordLayout(last[1].inv.navEntry.state)
                /\ ( /\ N = 1
                     /\ loc[p].option \in {"--next", "--prev"}
                     /\ here \in Range(Catalog) )
                   => RecordLayout(stateFile) = here

\* How many entries of seq are x.
Count(seq, x) == Cardinality({i \in 1..Len(seq) : seq[i] = x})

\* C3: N successive completed --next from a catalog entry (N the length of the
\* listed catalog) record the path of every catalog entry exactly once, so no
\* path more often than the catalog lists it, and end at the start.
C3_FullCycle ==
    LET N == Len(Catalog)
        k == Len(chain) - 1
        visited == SubSeq(chain, 2, Len(chain))
    IN  (chain # <<>> /\ chain[1] \in Range(Catalog) /\ k <= N) =>
            /\ \A x \in Range(visited) : Count(visited, x) <= Count(Catalog, x)
            /\ (k = N) => chain[Len(chain)] = chain[1]

\* C4: --set <target> selects the first catalog entry whose path or name is the
\* target whenever there is one, whatever the state record holds.
C4_SetSelectsFirstMatch ==
    \A p \in Procs :
        (Navigated(p) /\ loc[p].option = "--set") =>
            LET pairs == list_layouts
                hits == {i \in 1..Len(pairs) : Matches(pairs[i], loc[p].arg)}
            IN  hits # {} =>
                    /\ loc[p].nav = "ok"
                    /\ \E i \in hits :
                          /\ \A j \in hits : i <= j
                          /\ loc[p].layout_path = pairs[i].layout

\* C5: --set <target> with a target that is no entry's path or name fails with
\* NotFound and leaves the state file, the installed layout and the installed
\* style as they were.
C5_SetMissingIsNotFound ==
    \A p \in Procs :
        ( /\ Navigated(p)
          /\ loc[p].option = "--set"
          /\ \A i \in 1..Len(list_layouts) : ~Matches(list_layouts[i], loc[p].arg) )
        => /\ loc[p].nav = "not_found"
           /\ loc[p].exit # 0
           /\ Snapshot = loc[p].navEntry

\* C6: when a navigation has completed for target entry t, the state record is
\* {t.path, resolve(t)}, the installed layout is a copy of t's file, the
\* installed style imports resolve(t), and one reload signal was sent.
C6_CompletedNavigationInstalls ==
    \A p \in Procs :
        (pc[p] = "post" /\ loc[p].nav = "ok") =>
            LET t == loc[p].layout_path
            IN  /\ RecordLayout(stateFile) = t
                /\ RecordStyle(stateFile) = resolve_style_path(t)
                /\ configFile = [exists |-> TRUE, data |-> files[t]]
                /\ styleFile = [exists |-> TRUE, import |-> resolve_style_path(t)]
                /\ loc[p].signals = 1

\* C7: the state-file write of a navigation leaves every line of no managed key
\* byte-identical and at its place.
C7_ForeignLinesVerbatim ==
    \A p \in Procs :
        pc[p] = "set_copy" =>
            LET before == RawLines(loc[p].navEntry.state.data)
                after == RawLines(stateFile.data)
            IN  /\ Len(after) = Len(before)
                /\ \A i \in 1..Len(before) :
                       IsForeign(before[i]) => after[i] = before[i]

\* C8: after the state write of a navigation for {layoutPath, stylePath} the
\* file holds both managed keys with the new values, a key that had no line
\* being appended.
C8_WriteHasBothKeys ==
    \A p \in Procs :
        pc[p] = "set_copy" =>
            /\ HasKey(RawLines(stateFile.data), KeyLayout)
            /\ HasKey(RawLines(stateFile.data), KeyStyle)
            /\ RecordLayout(stateFile) = loc[p].layout_path
            /\ RecordStyle(stateFile) = loc[p].style_path

\* A bootstrap or a state write of process p has just completed.
AfterOperation(p) == pc[p] \in {"navigate", "set_copy"}

\* C9: after every bootstrap and navigation, a state file that exists and is
\* not empty holds both managed keys, and a key the operation wrote holds the
\* path of a file that exists (the style path is never the defaults path of a
\* directory that has no defaults file).
C9_RecordCompleteAndReal ==
    \A p \in Procs :
        (AfterOperation(p) /\ stateFile.exists /\ stateFile.data # <<>>) =>
            LET lines == RawLines(stateFile.data)
                was == IF pc[p] = "navigate" THEN loc[p].entry.state
                       ELSE loc[p].navEntry.state
                wrote(key) ==
                    pc[p] = "set_copy" \/ ~HasKey(RawLines(was.data), key)
            IN  /\ HasKey(lines, KeyLayout)
                /\ HasKey(lines, KeyStyle)
                /\ wrote(KeyLayout) => RecordLayout(stateFile) \in DOMAIN files
                /\ wrote(KeyStyle) => RecordStyle(stateFile) \in Range(styles)

\* C10: a bootstrap that finds the state file absent, empty or without one of
\* the managed keys, while the installed configuration has the digest of a
\* catalog entry, leaves the record {e.path, resolve(e)}, e the first entry of
\* that digest.
C10_BootstrapRecordsReconciled ==
    \A p \in Procs :
        pc[p] = "navigate" =>
            LET was == loc[p].entry
                lines == RawLines(was.state.data)
                partial == \/ ~was.state.exists
                           \/ was.state.data = <<>>
                           \/ ~HasKey(lines, KeyLayout)
                           \/ ~HasKey(lines, KeyStyle)
                same == {i \in 1..Len(Catalog) :
                            get_file_hash(files[Catalog[i]]) = get_file_hash(was.config.data)}
            IN  (partial /\ was.config.exists /\ same # {}) =>
                    \E i \in same :
                        /\ \A j \in same : i <= j
                        /\ RecordLayout(stateFile) = Catalog[i]
                        /\ RecordStyle(stateFile) = resolve_style_path(Catalog[i])

\* Both managed keys have a line in the file.
Complete(file) ==
    /\ file.exists
    /\ HasKey(RawLines(file.data), KeyLayout)
    /\ HasKey(RawLines(file.data), KeyStyle)

\* The bootstrap of p has just run, and the bootstrap of the invocation before
\* it left the state file and the installed configuration that this one found.
SecondBootstrap(p) ==
    /\ pc[p] = "navigate"
    /\ last # <<>>
    /\ last[1].inv.navigated
    /\ loc[p].entry.state = last[1].inv.navEntry.state
    /\ loc[p].entry.config = last[1].inv.navEntry.config

\* C11: a bootstrap that follows a bootstrap, nothing having changed in
\* between, leaves the state file as the first left it, and a bootstrap on a
\* complete record changes nothing.
C11_BootstrapIdempotent ==
    \A p \in Procs :
        /\ SecondBootstrap(p) => stateFile = loc[p].entry.state
        /\ (pc[p] = "navigate" /\ Complete(loc[p].entry.state))
              => stateFile = loc[p].entry.state

\* No catalog entry has the digest of the installed configuration config.
ReconciliationMiss(config) ==
    /\ config.exists
    /\ \A i \in 1..Len(Catalog) :
          get_file_hash(files[Catalog[i]]) # get_file_hash(config.data)

\* C12: a bootstrap that is needed while no catalog entry has the digest of the
\* installed configuration writes nothing: an absent state file stays absent,
\* an existing one is unchanged, no managed key is filled with a guess.
C12_MissWritesNothing ==
    \A p \in Procs :
        ( /\ pc[p] = "navigate"
          /\ ~Complete(loc[p].entry.state)
          /\ ReconciliationMiss(loc[p].entry.config) )
        => stateFile = loc[p].entry.state

\* C12 happens: a bootstrap found a partial record and a catalog with layouts, none
\* of the installed digest, and has run.
C12_Witness ==
    \E p \in Procs :
        /\ pc[p] = "navigate"
        /\ loc[p].entry.state.exists
        /\ loc[p].entry.state.data # <<>>
        /\ ~Complete(loc[p].entry.state)
        /\ Catalog # <<>>
        /\ ReconciliationMiss(loc[p].entry.config)
        /\ ~HasKey(RawLines(stateFile.data), KeyLayout)

\* ------------------------------------------------- properties of the resolver

\* The name resolve_style_path searches for, and the name without its #tag.
NameOf(layout_path) == RemoveAll(Basename(layout_path), ".jsonc")
BaseOf(layout_path) == FirstField(NameOf(layout_path), "#")
HasTag(layout_path) == NameOf(layout_path) # BaseOf(layout_path)

\* f is a style file named {name}*.css.
MatchesName(f, name) ==
    /\ StartsWith(Basename(f), name)
    /\ EndsWith(Basename(f), ExtStyle)
    /\ Len(Basename(f)) >= Len(name) + Len(ExtStyle)

\* The style directories (by precedence, 1 the highest) that hold a match of name.
DirsWith(name) ==
    {d \in 1..Len(STYLE_DIRS) :
        \E f \in Range(styles) : Dirname(f) = STYLE_DIRS[d] /\ MatchesName(f, name)}

IsDefaults(f) == Basename(f) = <<"defaults", ".css">>

\* path is a match of name in the highest-precedence directory that has one.
BestMatch(path, name) ==
    /\ path \in Range(styles)
    /\ MatchesName(path, name)
    /\ \E d \in DirsWith(name) :
          /\ \A e \in DirsWith(name) : d <= e
          /\ Dirname(path) = STYLE_DIRS[d]

\* resolve_style_path has been called by p.
Resolved(p) == loc[p].layout_path # None

\* C13: for a layout named base#tag, when a style directory holds a match of
\* the full name, the result is a full-name match from the highest-precedence
\* such directory, whatever base-name files earlier directories hold.
C13_FullNameWins ==
    \A p \in Procs :
        (Resolved(p) /\ HasTag(loc[p].layout_path)
            /\ DirsWith(NameOf(loc[p].layout_path)) # {})
        => /\ BestMatch(loc[p].style_path, NameOf(loc[p].layout_path))
           /\ ~IsDefaults(loc[p].style_path)

C15_TotalDeterministicSmallest ==
    \A p \in Procs :
        Resolved(p) =>
            LET layout == loc[p].layout_path
                result == loc[p].style_path
                name == IF DirsWith(NameOf(layout)) # {} THEN NameOf(layout)
                        ELSE BaseOf(layout)
            IN  /\ result # None
                /\ (last # <<>> /\ last[1].inv.layout_path = layout)
                      => last[1].inv.style_path = result
                /\ DirsWith(name) # {} =>
                      \A f \in Range(styles) :
                          (Dirname(f) = Dirname(result) /\ MatchesName(f, name))
                              => ~LexLess(f, result)
                /\ result \notin Range(styles) =>
                      /\ result = DefaultsPath(STYLE_DIRS[1])
                      /\ DirsWith(NameOf(layout)) = {}
                      /\ DirsWith(BaseOf(layout)) = {}
                      /\ \A f \in Range(styles) : ~IsDefaults(f)

\* ------------------------------------------ properties of failed navigations

\* C16: the list find_layout_files returns is strictly increasing in the order
\* of the full paths, so it holds no path twice, whatever the search
\* directories are (equal, nested, absent), and listing never raises.
C16_CatalogSortedNoDuplicates ==
    \A p \in Procs :
        loc[p].navigated =>
            \A i \in 1..(Len(Catalog) - 1) : LexLess(Catalog[i], Catalog[i + 1])

\* The layout e that reconciliation against the installed configuration config
\* finds, None when there is none.
Reconciled(config) ==
    IF config.exists THEN FirstWithHash(Catalog, get_file_hash(config.data)) ELSE None

\* C17: for --next / --prev, when the state record's layoutPath is absent or
\* is the path of no catalog entry, the navigation goes on from the entry e
\* that reconciliation finds (+1 / -1 mod N) and succeeds; when there is no
\* such e it fails and leaves the state file and the installed configuration.
C17_ReconcileOrFail ==
    \A p \in Procs :
        ( /\ Navigated(p)
          /\ loc[p].option \in {"--next", "--prev"}
          /\ loc[p].navEntry.state.exists
          /\ loc[p].navEntry.config.exists
          /\ RecordLayout(loc[p].navEntry.state) \notin Range(Catalog) )
        => LET N == Len(Catalog)
               e == Reconciled(loc[p].navEntry.config)
               step == IF loc[p].option = "--next" THEN 1 ELSE N - 1
           IN  IF e # None
               THEN /\ loc[p].nav = "ok"
                    /\ loc[p].layout_path = Catalog[((IndexOf(Catalog, e) + step) % N) + 1]
               ELSE /\ loc[p].nav # "ok"
                    /\ stateFile = loc[p].navEntry.state
                    /\ configFile = loc[p].navEntry.config

\* C18: a navigation that finds no state file does not end in a raised
\* file-not-found error.
C18_MissingStateFileHandled ==
    \A p \in Procs :
        (Navigated(p) /\ ~loc[p].navEntry.state.exists) =>
            /\ loc[p].err # "FileNotFoundError"
            /\ loc[p].nav # "raised"

\* C19: with a catalog of no layout every --next / --prev fails as a failure
\* the navigation reports (nothing raised, no modulo by zero), and the state
\* file and the installed configuration are as they were.
C19_EmptyCatalogFails ==
    \A p \in Procs :
        ( /\ Navigated(p)
          /\ loc[p].option \in {"--next", "--prev"}
          /\ Catalog = <<>> )
        => /\ loc[p].nav \in {"no_current", "recache_failed", "not_found"}
           /\ stateFile = loc[p].navEntry.state
           /\ configFile = loc[p].navEntry.config

\* C20: an invocation whose navigation failed ends with a non-zero exit status
\* and does nothing after the failure: no restart of the bar, no style written.
C20_FailureExitsNonZero ==
    \A p \in Procs :
        ( /\ Navigated(p)
          /\ loc[p].nav \in {"no_current", "recache_failed", "not_found"} )
        => /\ loc[p].exit # 0
           /\ loc[p].restarts = 0
           /\ styleFile = loc[p].navEntry.style

\* ------------------------------------------ properties of two invocations

\* set_layout of p has written the state file and closed it.
Wrote(p) ==
    \/ pc[p] \in {"set_copy", "set_style", "set_signal"}
    \/ pc[p] \in {"post", "restart", "done"} /\ loc[p].nav = "ok"

\* C21: when two navigations have both written the state file, however their
\* reads and writes interleaved, the state record is the complete
\* {layoutPath, stylePath} one of the two wrote: never the layout of one with
\* the style of the other, never empty or cut short.
C21_LastWriterWins ==
    (\A p \in Procs : Wrote(p)) =>
        \E p \in Procs :
            /\ RecordLayout(stateFile) = loc[p].layout_path
            /\ RecordStyle(stateFile) = loc[p].style_path

\* Every invocation has ended and none can start.
AllFinished == \A p \in Procs : pc[p] = "idle" /\ runs[p] = 0

\* C22: once every invocation has finished, the installed layout is a copy of
\* the file the recorded layoutPath names and the installed style imports the
\* recorded stylePath.
C22_RecordAgreesWithInstalled ==
    AllFinished =>
        /\ RecordLayout(stateFile) \in DOMAIN files
        /\ configFile = [exists |-> TRUE, data |-> files[RecordLayout(stateFile)]]
        /\ styleFile = write_style_file(RecordStyle(stateFile))

====
